---- MODULE Spec2Model ----
(***************************************************************************)
(* A model of the dep-tree crate (src/src/lib.rs): the DepTreeBuilder that *)
(* accumulates unit -> dependency-list edges behind an Rc<RefCell<..>>,    *)
(* its build() validation (self-dependency check and depth-first cycle     *)
(* search), and the six queries of the immutable DepTree.                  *)
(*                                                                         *)
(* A DepId is the pair (u64, usize).  The code uses a DepId only through   *)
(* Eq and Ord (Vec::contains, BTreeMap/BTreeSet keys), so a DepId is       *)
(* modelled by its rank in the lexicographic order of the pairs in play:   *)
(* an integer of 1..MaxUnit.  A BTreeMap<DepId, Vec<DepId>> is a function  *)
(* from a set of DepIds to sequences of DepIds; its iteration order is the *)
(* ascending order of the keys.                                            *)
(***************************************************************************)
EXTENDS Integers, Sequences, FiniteSets, TLC

\* ------------------------------------------------------------------ bounds
\* the units of the edge maps that are built and queried
MaxUnit == 3
\* the longest dependency list of those maps, and the most edges they hold
MaxDeps == 2
MaxEdges == 3
\* the units and the longest list a with_dep call is given, and the most
\* handles alive at once
MaxCallUnit == 2
MaxCallDeps == 1
MaxHandles == 2

DepId == 1..MaxUnit

VARIABLES
  heap,      \* the two reference-counted allocations holding an edge map
  handles,   \* number of live DepTreeBuilder handles (Rc strong count)
  borrow,    \* the RefCell borrow flag: 0 free, -1 exclusive, n > 0 shared
  panicked,  \* TRUE once an unwrap() has hit Err/None
  graph,     \* which allocation the DepTree returned by build points at
  result,    \* what the latest build() returned
  answer,    \* what the latest query returned
  passed     \* per unit, the deps lists passed to with_dep for it so far

vars == <<heap, handles, borrow, panicked, graph, result, answer, passed>>

\* --------------------------------------------------------- Vec / BTreeMap
Range(s) == {s[i] : i \in 1..Len(s)}

\* Vec::contains
Contains(s, x) == \E i \in 1..Len(s) : s[i] = x

EmptyMap == <<>>

\* BTreeMap::keys / iter: the keys in ascending order
RECURSIVE Ascending(_)
Ascending(S) ==
  IF S = {} THEN <<>>
  ELSE LET least == CHOOSE x \in S : \A y \in S : x <= y
       IN <<least>> \o Ascending(S \ {least})

Keys(m) == Ascending(DOMAIN m)

\* BTreeMap::get(..) with None read as "no dependencies"
DepsOf(m, id) == IF id \in DOMAIN m THEN m[id] ELSE <<>>

\* BTreeMap::insert
MapInsert(m, k, v) == [x \in (DOMAIN m) \cup {k} |-> IF x = k THEN v ELSE m[x]]

\* Entry::Occupied(entry) => entry.insert(deps): the list is replaced
EntryReplace(inner, id, deps) == MapInsert(inner, id, deps)

\* with_dep's match on inner_lock.entry(id)
EntryMerge(inner, id, deps) ==
  IF id \in DOMAIN inner
    THEN [inner EXCEPT ![id] = @ \o deps]
    ELSE MapInsert(inner, id, deps)

\* ------------------------------------------------------------ the builder
RECURSIVE has_circular_dependency(_, _, _, _)
RECURSIVE has_circular_dependency_eager(_, _, _, _)
RECURSIVE circular_loop(_, _, _, _, _)

\* stack.pop()
StackKeep(stack) == stack

StackPop(stack) == SubSeq(stack, 1, Len(stack) - 1)

\* The search with the unit marked visited when it is pushed rather than
\* when its dependencies have all been explored.
has_circular_dependency_eager(unit, tree, visited, stack) ==
  IF Contains(visited, unit) THEN [found |-> FALSE, visited |-> visited, stack |-> stack]
  ELSE IF Contains(stack, unit) THEN [found |-> TRUE, visited |-> visited, stack |-> stack]
  ELSE LET r == circular_loop(DepsOf(tree, unit), 1, tree,
                              Append(visited, unit), Append(stack, unit))
       IN IF r.found THEN r
          ELSE [found |-> FALSE, visited |-> r.visited, stack |-> StackPop(r.stack)]

\* has_circular_dependency: the result, and visited and stack as it leaves them
has_circular_dependency(unit, tree, visited, stack) ==
  IF Contains(visited, unit) THEN [found |-> FALSE, visited |-> visited, stack |-> stack]
  ELSE IF Contains(stack, unit) THEN [found |-> TRUE, visited |-> visited, stack |-> stack]
  ELSE LET r == circular_loop(DepsOf(tree, unit), 1, tree, visited, Append(stack, unit))
       IN IF r.found THEN r
          ELSE [found |-> FALSE,
                visited |-> Append(r.visited, unit),
                stack |-> StackPop(r.stack)]

\* the `for &dep in deps` loop of has_circular_dependency, from index i on
circular_loop(deps, i, tree, visited, stack) ==
  IF i > Len(deps) THEN [found |-> FALSE, visited |-> visited, stack |-> stack]
  ELSE LET r == has_circular_dependency(deps[i], tree, visited, stack)
       IN IF r.found THEN r
          ELSE circular_loop(deps, i + 1, tree, r.visited, r.stack)

\* the trace string: "(id, version)" per stack element, joined by " -> "
RECURSIVE FormatTrace(_)
FormatTrace(stack) ==
  IF stack = <<>> THEN <<>>
  ELSE IF Len(stack) = 1 THEN <<[tok |-> "unit", unit |-> stack[1]]>>
  ELSE <<[tok |-> "unit", unit |-> stack[1]], [tok |-> "arrow"]>> \o FormatTrace(Tail(stack))

Panic == [kind |-> "panic"]
NoResult == [kind |-> "none"]
SelfDependency(unit) == [kind |-> "SelfDependency", unit |-> unit]
Ok(resolved) == [kind |-> "Ok", tree |-> resolved]

\* Err(CircularDependency(*stack.first().unwrap(), *stack.last().unwrap(), ..))
CircularDependency(stack) ==
  IF stack = <<>> THEN Panic
  ELSE [kind |-> "CircularDependency", first |-> stack[1], last |-> stack[Len(stack)],
        trace |-> FormatTrace(stack)]

\* the `for (unit, deps) in inner.clone().into_iter()` loop of build, from
\* the i-th key on
RECURSIVE build_loop(_, _, _, _, _)
build_loop(keys, i, inner, visited, resolved) ==
  IF i > Len(keys) THEN Ok(resolved)
  ELSE LET unit == keys[i]
           deps == inner[unit]
       IN IF Contains(deps, unit) THEN SelfDependency(unit)
          ELSE LET r == has_circular_dependency(unit, inner, visited, <<>>)
               IN IF r.found THEN CircularDependency(r.stack)
                  ELSE build_loop(keys, i + 1, inner, r.visited,
                                  MapInsert(resolved, unit, deps))

\* build, as a function of the accumulated map
build(inner) == build_loop(Keys(inner), 1, inner, <<>>, EmptyMap)

\* ------------------------------------------------------------ the DepTree
RECURSIVE count_dependencies(_, _, _)
RECURSIVE count_dependencies_once(_, _, _)
RECURSIVE count_loop(_, _, _, _, _)

\* The count with an edge to an already visited unit not counted.
count_dependencies_once(tree, id, visited) ==
  IF id \in visited THEN [count |-> -1, visited |-> visited]
  ELSE count_loop(tree, DepsOf(tree, id), 1, visited \cup {id}, 0)

\* count_dependencies: the count, and visited as it leaves it
count_dependencies(tree, id, visited) ==
  IF id \in visited THEN [count |-> 0, visited |-> visited]
  ELSE count_loop(tree, DepsOf(tree, id), 1, visited \cup {id}, 0)

\* deps.iter().map(|dep| 1 + self.count_dependencies(dep, visited)).sum(),
\* from index i on, sum being the running total
count_loop(tree, deps, i, visited, sum) ==
  IF i > Len(deps) THEN [count |-> sum, visited |-> visited]
  ELSE LET r == count_dependencies(tree, deps[i], visited)
       IN count_loop(tree, deps, i + 1, r.visited, sum + 1 + r.count)

RECURSIVE collect_dependencies(_, _, _, _)
RECURSIVE collect_loop(_, _, _, _, _)

\* collect_dependencies: visited and dependencies as it leaves them
collect_dependencies(tree, id, visited, dependencies) ==
  IF id \in visited THEN [visited |-> visited, dependencies |-> dependencies]
  ELSE collect_loop(tree, DepsOf(tree, id), 1, visited \cup {id}, dependencies)

\* the `for dep in deps` loop of collect_dependencies, from index i on
collect_loop(tree, deps, i, visited, dependencies) ==
  IF i > Len(deps) THEN [visited |-> visited, dependencies |-> dependencies]
  ELSE LET r == collect_dependencies(tree, deps[i], visited, Append(dependencies, deps[i]))
       IN collect_loop(tree, deps, i + 1, r.visited, r.dependencies)

dependencies_of(tree, unit) == collect_dependencies(tree, unit, {}, <<>>).dependencies

\* Every key from which unit is reachable, not only the keys that list it.
dependents_of_transitive(tree, unit) ==
  LET keys == Keys(tree)
  IN SelectSeq(keys, LAMBDA key : Contains(dependencies_of(tree, key), unit))

dependents_of(tree, unit) ==
  LET keys == Keys(tree)
  IN SelectSeq(keys, LAMBDA key : Contains(tree[key], unit))

\* |a, b| b.1.cmp(&a.1) (descending) or |a, b| a.1.cmp(&b.1): is a Less than b
Less(a, b, descending) == IF descending THEN a[2] > b[2] ELSE a[2] < b[2]

\* slice::sort_by is a stable sort: the pair goes after every pair that does
\* not compare greater than it
RECURSIVE SortInsert(_, _, _)
SortInsert(sorted, pair, descending) ==
  IF sorted = <<>> THEN <<pair>>
  ELSE IF Less(pair, Head(sorted), descending) THEN <<pair>> \o sorted
  ELSE <<Head(sorted)>> \o SortInsert(Tail(sorted), pair, descending)

RECURSIVE SortBy(_, _)
SortBy(pairs, descending) ==
  IF pairs = <<>> THEN <<>>
  ELSE SortInsert(SortBy(SubSeq(pairs, 1, Len(pairs) - 1), descending),
                  pairs[Len(pairs)], descending)

\* self.inner.keys().map(|id| (*id, count_dependencies(id, &mut BTreeSet::new())))
dependency_counts(tree) ==
  LET keys == Keys(tree)
  IN [i \in 1..Len(keys) |-> <<keys[i], count_dependencies(tree, keys[i], {}).count>>]

most_dependencies(tree) == SortBy(dependency_counts(tree), TRUE)

least_dependencies(tree) == SortBy(dependency_counts(tree), FALSE)

\* *dependent_map.entry(dep).or_insert(0) += 1 for every entry of every list
Occurrences(tree, x) ==
  LET n[key \in DOMAIN tree] == Cardinality({i \in 1..Len(tree[key]) : tree[key][i] = x})
      RECURSIVE Sum(_)
      Sum(S) == IF S = {} THEN 0
                ELSE LET k == CHOOSE k \in S : TRUE IN n[k] + Sum(S \ {k})
  IN Sum(DOMAIN tree)

calculate_dependents(tree) ==
  LET listed == UNION {Range(tree[key]) : key \in DOMAIN tree}
      ids == Ascending(listed \cup DOMAIN tree)
  IN [i \in 1..Len(ids) |-> <<ids[i], Occurrences(tree, ids[i])>>]

most_dependents(tree) == SortBy(calculate_dependents(tree), TRUE)

least_dependents(tree) == SortBy(calculate_dependents(tree), FALSE)

\* ------------------------------------------------------ the state machine
AccCell == "accumulator"

\* A DepTree that points at the builder's own allocation.
RcShared == AccCell

\* Rc::new(resolved): a new allocation, distinct from the accumulator's
RcNew == "resolved"

\* The RefMut is still held when with_dep returns.
RefMutLeaked(flag) == flag

\* the RefMut `inner_lock` goes out of scope at the end of with_dep
RefMutDropped(flag) == 0

\* the Ref `inner` goes out of scope at the end of build
RefDropped(flag) == flag - 1

NoAnswer == [query |-> "none"]
Answer(query, arg, value) == [query |-> query, arg |-> arg, value |-> value]

\* the map the DepTree holds
Tree == heap[graph]

\* the map behind the builder handles
Inner == heap[AccCell]

Edges(m) ==
  LET RECURSIVE Sum(_)
      Sum(S) == IF S = {} THEN 0
                ELSE LET k == CHOOSE k \in S : TRUE IN Len(m[k]) + Sum(S \ {k})
  IN Sum(DOMAIN m)

\* the lists of at most n units of 1..top
Lists(top, n) == UNION {[1..k -> 1..top] : k \in 0..n}

Min(a, b) == IF a < b THEN a ELSE b

\* the edge maps over the units from..MaxUnit with lists of at most MaxDeps
\* units and at most budget edges in all
RECURSIVE EdgeMapsFrom(_, _)
EdgeMapsFrom(from, budget) ==
  IF from > MaxUnit THEN {EmptyMap}
  ELSE EdgeMapsFrom(from + 1, budget)
       \cup UNION {{MapInsert(m, from, deps) : m \in EdgeMapsFrom(from + 1, budget - Len(deps))} :
                   deps \in Lists(MaxUnit, Min(MaxDeps, budget))}

\* the edge maps with_dep calls can accumulate, within the bounds
EdgeMaps == EdgeMapsFrom(1, MaxEdges)

\* DepTreeBuilder::new()
Init ==
  /\ heap = [accumulator |-> EmptyMap, resolved |-> EmptyMap]
  /\ handles = 1
  /\ borrow = 0
  /\ panicked = FALSE
  /\ graph = "none"
  /\ result = NoResult
  /\ answer = NoAnswer
  /\ passed = EmptyMap

\* a builder after the with_dep calls that accumulate some edge map
InitGraph ==
  /\ \E m \in EdgeMaps :
       /\ heap = [accumulator |-> m, resolved |-> EmptyMap]
       /\ passed = m
  /\ handles = 1
  /\ borrow = 0
  /\ panicked = FALSE
  /\ graph = "none"
  /\ result = NoResult
  /\ answer = NoAnswer

\* #[derive(Clone)] on DepTreeBuilder: one more handle on the same Rc
Clone ==
  /\ ~panicked
  /\ handles \in 1..(MaxHandles - 1)
  /\ handles' = handles + 1
  /\ UNCHANGED <<heap, borrow, panicked, graph, result, answer, passed>>

\* a handle goes out of scope
Drop ==
  /\ ~panicked
  /\ handles >= 1
  /\ handles' = handles - 1
  /\ UNCHANGED <<heap, borrow, panicked, graph, result, answer, passed>>

\* with_dep(id, deps) through any live handle; it returns one more handle,
\* which the caller drops at once when MaxHandles are alive
WithDep ==
  /\ ~panicked
  /\ handles >= 1
  /\ \E id \in 1..MaxCallUnit, deps \in Lists(MaxCallUnit, MaxCallDeps) :
       /\ Edges(Inner) + Len(deps) <= MaxEdges
       /\ IF borrow # 0
            THEN /\ panicked' = TRUE
                 /\ UNCHANGED <<heap, handles, borrow, passed>>
            ELSE /\ heap' = [heap EXCEPT ![AccCell] = EntryMerge(@, id, deps)]
                 /\ borrow' = RefMutDropped(-1)
                 /\ handles' = Min(handles + 1, MaxHandles)
                 /\ passed' = [unit \in (DOMAIN passed) \cup {id} |->
                                 DepsOf(passed, unit) \o (IF unit = id THEN deps ELSE <<>>)]
                 /\ UNCHANGED panicked
  /\ result' = NoResult
  /\ UNCHANGED <<graph, answer>>

\* build() on any live handle, which it consumes
Build ==
  /\ ~panicked
  /\ handles >= 1
  /\ IF borrow < 0
       THEN /\ panicked' = TRUE
            /\ UNCHANGED <<heap, handles, borrow, graph, result, answer>>
       ELSE LET r == build(Inner)
            IN /\ result' = r
               /\ panicked' = (r = Panic)
               /\ borrow' = RefDropped(borrow + 1)
               /\ handles' = handles - 1
               /\ IF r.kind = "Ok"
                    THEN /\ heap' = [heap EXCEPT ![RcNew] = r.tree]
                         /\ graph' = RcNew
                         /\ answer' = NoAnswer
                    ELSE UNCHANGED <<heap, graph, answer>>
  /\ UNCHANGED passed

HasGraph == ~panicked /\ graph # "none"

DependenciesOf ==
  /\ HasGraph
  /\ \E unit \in DepId :
       answer' = Answer("dependencies_of", unit, dependencies_of(Tree, unit))
  /\ UNCHANGED <<heap, handles, borrow, panicked, graph, result, passed>>

DependentsOf ==
  /\ HasGraph
  /\ \E unit \in DepId :
       answer' = Answer("dependents_of", unit, dependents_of(Tree, unit))
  /\ UNCHANGED <<heap, handles, borrow, panicked, graph, result, passed>>

MostDependencies ==
  /\ HasGraph
  /\ answer' = Answer("most_dependencies", 0, most_dependencies(Tree))
  /\ UNCHANGED <<heap, handles, borrow, panicked, graph, result, passed>>

LeastDependencies ==
  /\ HasGraph
  /\ answer' = Answer("least_dependencies", 0, least_dependencies(Tree))
  /\ UNCHANGED <<heap, handles, borrow, panicked, graph, result, passed>>

MostDependents ==
  /\ HasGraph
  /\ answer' = Answer("most_dependents", 0, most_dependents(Tree))
  /\ UNCHANGED <<heap, handles, borrow, panicked, graph, result, passed>>

LeastDependents ==
  /\ HasGraph
  /\ answer' = Answer("least_dependents", 0, least_dependents(Tree))
  /\ UNCHANGED <<heap, handles, borrow, panicked, graph, result, passed>>

\* the builder in use: handles cloned and dropped, edges added, graphs built
Next ==
  \/ Clone
  \/ Drop
  \/ WithDep
  \/ Build

Spec == Init /\ [][Next]_vars

\* one build of an accumulated edge map, and queries on its graph
NextGraph ==
  \/ Build
  \/ DependenciesOf
  \/ DependentsOf
  \/ MostDependencies
  \/ LeastDependencies
  \/ MostDependents
  \/ LeastDependents

SpecGraph == InitGraph /\ [][NextGraph]_vars

\* ------------------------------------------------------------- the claims
\* the units some unit of S lists
Listed(m, S) == UNION {Range(DepsOf(m, x)) : x \in S}

\* the units reachable from those of S by one or more declared edges
RECURSIVE Closure(_, _, _)
Closure(m, S, n) == IF n = 0 THEN {} ELSE Listed(m, S) \cup Closure(m, Listed(m, S), n - 1)

Reach(m, unit) == Closure(m, {unit}, Cardinality(DOMAIN m) + 1)

\* some unit lists itself
SelfListed(m) == \E unit \in DOMAIN m : unit \in Range(m[unit])

\* the declared edges contain a directed cycle (a unit that lists itself is one)
Cyclic(m) == \E unit \in DOMAIN m : unit \in Reach(m, unit)

NoDuplicates(s) == \A i, j \in 1..Len(s) : s[i] = s[j] => i = j

Built == result.kind # "none"

Asked(queries) == answer.query \in queries

\* C1: build returns a Graph of the accumulated map if and only if no unit
\* lists itself and the declared edges contain no directed cycle.
C1_BuildIffAcyclic ==
  Built =>
    /\ result.kind = "Ok" <=> ~SelfListed(Inner) /\ ~Cyclic(Inner)
    /\ result.kind = "Ok" => result.tree = Inner /\ graph # "none" /\ Tree = Inner

\* a cycle is reported by a search that started after an earlier unit's search
\* had filled the visited set
C1_Witness ==
  /\ result.kind = "CircularDependency"
  /\ result.first # Keys(Inner)[1]

\* C2: dependencies_of(u) holds exactly the units reachable from u by one or
\* more declared edges, each exactly once.
C2_DependenciesOfEachOnce ==
  Asked({"dependencies_of"}) =>
    /\ Range(answer.value) = Reach(Tree, answer.arg)
    /\ NoDuplicates(answer.value)

\* C3: when some unit lists itself, build fails with Self-dependency naming a
\* unit that lists itself, whatever else the map holds.
C3_SelfDependencyReported ==
  (Built /\ SelfListed(Inner)) =>
    /\ result.kind = "SelfDependency"
    /\ result.unit \in Range(DepsOf(Inner, result.unit))

\* the distinct units that directly list x
DirectDependents(m, x) == {key \in DOMAIN m : x \in Range(m[key])}

\* C4: the count most_dependents and least_dependents pair with x is the
\* number of distinct units that directly list x.
C4_DependentCountIsDistinctUnits ==
  Asked({"most_dependents", "least_dependents"}) =>
    \A i \in 1..Len(answer.value) :
      answer.value[i][2] = Cardinality(DirectDependents(Tree, answer.value[i][1]))

RECURSIVE SumOfLengths(_, _)
SumOfLengths(m, S) ==
  IF S = {} THEN 0
  ELSE LET x == CHOOSE x \in S : TRUE IN Len(DepsOf(m, x)) + SumOfLengths(m, S \ {x})

Example == [unit \in 1..3 |-> IF unit = 1 THEN <<2, 3>> ELSE IF unit = 2 THEN <<3>> ELSE <<>>]

\* C5: most_dependencies and least_dependencies pair every key u, once, with
\* the sum of the dependency-list lengths of u and of the units reachable from
\* u; for {1:[2,3], 2:[3], 3:[]} most_dependencies is [(1,3), (2,1), (3,0)].
C5_DependencyCount ==
  Asked({"most_dependencies", "least_dependencies"}) =>
    /\ {answer.value[i][1] : i \in 1..Len(answer.value)} = DOMAIN Tree
    /\ Len(answer.value) = Cardinality(DOMAIN Tree)
    /\ \A i \in 1..Len(answer.value) :
         LET u == answer.value[i][1]
         IN answer.value[i][2] = SumOfLengths(Tree, {u} \cup Reach(Tree, u))
    /\ (Asked({"most_dependencies"}) /\ Tree = Example) =>
         answer.value = <<(<<1, 3>>), (<<2, 1>>), (<<3, 0>>)>>

C5_Witness ==
  /\ Asked({"most_dependencies"})
  /\ Tree = Example
  /\ answer.value[1] = <<1, 3>>

\* the units a trace string names, in order
TraceUnits(trace) == [i \in 1..((Len(trace) + 1) \div 2) |-> trace[2 * i - 1].unit]

\* the trace string is units separated by arrows
WellFormedTrace(trace) ==
  /\ Len(trace) % 2 = 1
  /\ \A i \in 1..Len(trace) : trace[i].tok = (IF i % 2 = 1 THEN "unit" ELSE "arrow")

\* the first key, in ascending order, from which a cycle can be reached
FirstCyclicKey(m) ==
  LET cyclic == {key \in DOMAIN m : \E x \in {key} \cup Reach(m, key) : x \in Reach(m, x)}
  IN CHOOSE key \in cyclic : \A other \in cyclic : key <= other

MinimalCycle == [unit \in 1..2 |-> IF unit = 1 THEN <<2>> ELSE <<1>>]

\* C6: the Circular-dependency trace is a path of declared edges without
\* repeated units that starts at the unit whose search was running and whose
\* last unit lists a unit of the trace; the pair is (first, last) of the trace.
\* The map {1:[2], 2:[1]} fails with a pair and a trace that hold 1 and 2.
C6_CircularTrace ==
  /\ result.kind = "CircularDependency" =>
       /\ WellFormedTrace(result.trace)
       /\ LET path == TraceUnits(result.trace)
          IN /\ NoDuplicates(path)
             /\ path[1] = FirstCyclicKey(Inner)
             /\ \A i \in 1..(Len(path) - 1) : path[i + 1] \in Range(DepsOf(Inner, path[i]))
             /\ Range(DepsOf(Inner, path[Len(path)])) \cap Range(path) # {}
             /\ result.first = path[1]
             /\ result.last = path[Len(path)]
  /\ (Built /\ Inner = MinimalCycle) =>
       /\ result.kind = "CircularDependency"
       /\ {result.first, result.last} = {1, 2}
       /\ Range(TraceUnits(result.trace)) = {1, 2}

\* a cycle found below the unit the search started from, after a sibling was
\* explored and popped
C6_Witness ==
  /\ result.kind = "CircularDependency"
  /\ Len(Inner[result.first]) = 2
  /\ result.last # Inner[result.first][1]
  /\ result.last # result.first

\* C7: the accumulated list of each unit is the concatenation, in call order,
\* of the deps lists passed for it, duplicates kept; a unit never passed is
\* absent; no call is refused.
C7_Accumulation ==
  /\ Inner = passed
  /\ ~panicked

\* two calls for one unit, each naming that unit itself, a second handle alive
C7_Witness ==
  /\ 1 \in DOMAIN Inner
  /\ Inner[1] = <<1, 1>>
  /\ handles >= 2

ChainMap == [unit \in 1..2 |-> <<unit + 1>>]

\* C8: dependents_of(u) is the keys whose own list contains u, each once; for
\* the chain 1 -> 2 -> 3, dependents_of(3) is [2] and dependencies_of(1)
\* contains 2 and 3.
C8_DependentsOfDirect ==
  /\ Asked({"dependents_of"}) =>
       /\ Range(answer.value) = DirectDependents(Tree, answer.arg)
       /\ NoDuplicates(answer.value)
       /\ (Tree = ChainMap /\ answer.arg = 3) => answer.value = <<2>>
  /\ (Asked({"dependencies_of"}) /\ answer.arg = 1 /\ Tree = ChainMap) =>
       {2, 3} \subseteq Range(answer.value)

C8_Witness ==
  /\ Asked({"dependents_of"})
  /\ Tree = ChainMap
  /\ answer.arg = 3
  /\ answer.value = <<2>>

\* C9: no step other than a build that returns a new Graph changes which map
\* the Graph holds or that map, which is all a query reads: not a with_dep
\* through another handle, a clone, a drop, or a build that fails.
C9_GraphIsSnapshot ==
  [][(graph # "none" /\ ~(result'.kind = "Ok" /\ result' # result)) =>
       /\ graph' = graph
       /\ Tree' = Tree]_vars

\* a Graph, and edges added to the accumulator it was built from afterwards
C9_Witness ==
  /\ graph # "none"
  /\ handles >= 1
  /\ Edges(Inner) > Edges(Tree)

\* C10: no with_dep or build panics: the borrow is free between calls and a
\* reported cycle comes with a non-empty stack.
C10_NoPanic ==
  /\ ~panicked
  /\ result # Panic
  /\ borrow = 0
  /\ result.kind = "CircularDependency" => result.trace # <<>>

\* a cycle reported by a build made while another handle is alive
C10_Witness ==
  /\ result.kind = "CircularDependency"
  /\ handles >= 1

====
